---- MODULE Spec2Model ----
(***************************************************************************)
(* CodeExplain (src/app.py): the syntax-tree visitor CodeDocGenerator and  *)
(* the orchestrator analyze_code, as a state machine.                      *)
(*                                                                         *)
(* Text is a sequence of tokens (strings); a documentation line is a       *)
(* record [src, text] where text is the line's tokens, its indentation     *)
(* prefix included, and src is the position (path of child indexes from    *)
(* the root) of the node whose handler appended it.  src is not part of    *)
(* the program's state: it records provenance for the properties.          *)
(* The pictographs of the program's literals are left out of the strings   *)
(* and a backquote is written as a quote.                                  *)
(***************************************************************************)
EXTENDS Integers, Sequences, FiniteSets, TLC

VARIABLES
    file,          \* analyze_code's argument
    disk,          \* the bytes stored under the path "a.py"
    has_unparse,   \* hasattr(ast, "unparse") in the hosting interpreter
    pc,            \* analyze_code's position
    source_code,   \* the local source_code (code points)
    tree,          \* the parsed module
    stack,         \* the visitor's call stack, one frame per visit(node)
    docs,          \* CodeDocGenerator.docs
    indent_level,  \* CodeDocGenerator.indent_level
    exc,           \* the exception in flight, <<>> when none
    result         \* analyze_code's return value, <<>> before it returns

vars == <<file, disk, has_unparse, pc, source_code, tree, stack, docs,
          indent_level, exc, result>>

(***************************************************************************)
(* Bounds of the model.                                                    *)
(***************************************************************************)
MaxNest == 2      \* compound statements nested around a statement
MaxDocLen == 4    \* characters of a docstring literal
MaxBytes == 4     \* bytes of an input file

(***************************************************************************)
(* Sequence helpers.                                                       *)
(***************************************************************************)
RECURSIVE Join(_, _)
\* sep.join(parts): parts is a sequence of token sequences
Join(parts, sep) ==
    IF parts = <<>> THEN <<>>
    ELSE IF Len(parts) = 1 THEN parts[1]
    ELSE parts[1] \o <<sep>> \o Join(Tail(parts), sep)

Drop(s, n) == IF n >= Len(s) THEN <<>> ELSE SubSeq(s, n + 1, Len(s))

SeqsUpTo(S, n) == UNION {[1..k -> S] : k \in 0..n}

(***************************************************************************)
(* Syntax nodes (the records ast.parse builds).  Optional fields hold a    *)
(* sequence of zero or one element.  Context and operator nodes (Load,     *)
(* Store, Add), which no handler reacts to and which have no children,     *)
(* are left out, and so are the fields that are empty in every program of  *)
(* the model (keywords, annotations, returns, type comments).              *)
(***************************************************************************)
Name(id) == [kind |-> "Name", id |-> id]
Num(v) == [kind |-> "Constant", str |-> FALSE, value |-> v]
Str(s) == [kind |-> "Constant", str |-> TRUE, value |-> s]
Attribute(value, attr) == [kind |-> "Attribute", value |-> value, attr |-> attr]
Call(func, args) == [kind |-> "Call", func |-> func, args |-> args]
BinOp(left, right) == [kind |-> "BinOp", left |-> left, right |-> right]
Tuple(elts) == [kind |-> "Tuple", elts |-> elts]
arg(a) == [kind |-> "arg", arg |-> a]
arguments(posonlyargs, args, vararg, kwonlyargs, kw_defaults, kwarg, defaults) ==
    [kind |-> "arguments", posonlyargs |-> posonlyargs, args |-> args,
     vararg |-> vararg, kwonlyargs |-> kwonlyargs, kw_defaults |-> kw_defaults,
     kwarg |-> kwarg, defaults |-> defaults]
Module(body) == [kind |-> "Module", body |-> body]
Import(names) == [kind |-> "Import", names |-> names]
ImportFrom(module, names) == [kind |-> "ImportFrom", module |-> module, names |-> names]
ClassDef(name, lineno, body, decorator_list) ==
    [kind |-> "ClassDef", name |-> name, lineno |-> lineno, bases |-> <<>>,
     body |-> body, decorator_list |-> decorator_list]
FunctionDef(name, lineno, args, body, decorator_list) ==
    [kind |-> "FunctionDef", name |-> name, lineno |-> lineno, args |-> args,
     body |-> body, decorator_list |-> decorator_list]
AsyncFunctionDef(name, lineno, args, body, decorator_list) ==
    [kind |-> "AsyncFunctionDef", name |-> name, lineno |-> lineno, args |-> args,
     body |-> body, decorator_list |-> decorator_list]
Assign(targets, value) == [kind |-> "Assign", targets |-> targets, value |-> value]
For(target, iter, body, orelse) ==
    [kind |-> "For", target |-> target, iter |-> iter, body |-> body, orelse |-> orelse]
AsyncFor(target, iter, body, orelse) ==
    [kind |-> "AsyncFor", target |-> target, iter |-> iter, body |-> body, orelse |-> orelse]
While(test, body, orelse) ==
    [kind |-> "While", test |-> test, body |-> body, orelse |-> orelse]
If(test, body, orelse) ==
    [kind |-> "If", test |-> test, body |-> body, orelse |-> orelse]
Expr(value) == [kind |-> "Expr", value |-> value]
Return(value) == [kind |-> "Return", value |-> value]
Pass == [kind |-> "Pass"]

\* one child per entry of a list field
Field(name, nodes) == [i \in 1..Len(nodes) |-> [field |-> name, node |-> nodes[i]]]

\* iter_fields(node), the AST-valued entries in _fields order
IterFields(node) ==
    CASE node.kind = "Module" -> Field("body", node.body)
      [] node.kind = "ClassDef" ->
            Field("bases", node.bases) \o Field("body", node.body)
            \o Field("decorator_list", node.decorator_list)
      [] node.kind \in {"FunctionDef", "AsyncFunctionDef"} ->
            Field("args", <<node.args>>) \o Field("body", node.body)
            \o Field("decorator_list", node.decorator_list)
      [] node.kind = "arguments" ->
            Field("posonlyargs", node.posonlyargs) \o Field("args", node.args)
            \o Field("vararg", node.vararg) \o Field("kwonlyargs", node.kwonlyargs)
            \o Field("kw_defaults", node.kw_defaults) \o Field("kwarg", node.kwarg)
            \o Field("defaults", node.defaults)
      [] node.kind = "Assign" ->
            Field("targets", node.targets) \o Field("value", <<node.value>>)
      [] node.kind \in {"For", "AsyncFor"} ->
            Field("target", <<node.target>>) \o Field("iter", <<node.iter>>)
            \o Field("body", node.body) \o Field("orelse", node.orelse)
      [] node.kind \in {"While", "If"} ->
            Field("test", <<node.test>>) \o Field("body", node.body)
            \o Field("orelse", node.orelse)
      [] node.kind = "Expr" -> Field("value", <<node.value>>)
      [] node.kind = "Return" -> Field("value", node.value)
      [] node.kind = "Call" -> Field("func", <<node.func>>) \o Field("args", node.args)
      [] node.kind = "Attribute" -> Field("value", <<node.value>>)
      [] node.kind = "BinOp" ->
            Field("left", <<node.left>>) \o Field("right", <<node.right>>)
      [] node.kind = "Tuple" -> Field("elts", node.elts)
      [] OTHER -> <<>>

(***************************************************************************)
(* ast.unparse on the expressions of the model.                            *)
(***************************************************************************)
RECURSIVE Unparse(_)
Unparse(e) ==
    CASE e.kind = "Name" -> <<e.id>>
      [] e.kind = "Constant" -> <<ToString(e.value)>>
      [] e.kind = "Attribute" -> Unparse(e.value) \o <<".", e.attr>>
      [] e.kind = "Call" ->
            Unparse(e.func) \o <<"(">>
            \o Join([i \in 1..Len(e.args) |-> Unparse(e.args[i])], ", ") \o <<")">>
      [] e.kind = "BinOp" -> Unparse(e.left) \o <<" + ">> \o Unparse(e.right)
      [] e.kind = "Tuple" ->
            <<"(">> \o Join([i \in 1..Len(e.elts) |-> Unparse(e.elts[i])], ", ")
            \o (IF Len(e.elts) = 1 THEN <<",)">> ELSE <<")">>)

\* ast.unparse(x) if hasattr(ast, "unparse") else "?"
Render(e) == IF has_unparse THEN Unparse(e) ELSE <<"?">>

(***************************************************************************)
(* inspect.cleandoc and ast.get_docstring on strings over {"d", " ", "\n"} *)
(* (no tabs, so expandtabs changes nothing).                               *)
(***************************************************************************)
RECURSIVE SplitLines(_)
\* s.split('\n')
SplitLines(s) ==
    IF \A i \in 1..Len(s) : s[i] # "\n" THEN <<s>>
    ELSE LET k == CHOOSE i \in 1..Len(s) :
                      s[i] = "\n" /\ \A j \in 1..(i - 1) : s[j] # "\n"
         IN  <<SubSeq(s, 1, k - 1)>> \o SplitLines(Drop(s, k))

RECURSIVE LStrip(_)
LStrip(s) == IF s # <<>> /\ Head(s) = " " THEN LStrip(Tail(s)) ELSE s

RECURSIVE PopBlankTail(_)
PopBlankTail(lines) ==
    IF lines # <<>> /\ lines[Len(lines)] = <<>>
    THEN PopBlankTail(SubSeq(lines, 1, Len(lines) - 1)) ELSE lines

RECURSIVE PopBlankHead(_)
PopBlankHead(lines) ==
    IF lines # <<>> /\ Head(lines) = <<>> THEN PopBlankHead(Tail(lines)) ELSE lines

cleandoc(doc) ==
    LET lines == SplitLines(doc)
        indents == {Len(lines[i]) - Len(LStrip(lines[i])) :
                        i \in {j \in 2..Len(lines) : LStrip(lines[j]) # <<>>}}
        stripped == [i \in 1..Len(lines) |->
                        IF i = 1 THEN LStrip(lines[1])
                        ELSE IF indents = {} THEN lines[i]
                        ELSE Drop(lines[i],
                                  CHOOSE m \in indents : \A n \in indents : m <= n)]
    IN  Join(PopBlankHead(PopBlankTail(stripped)), "\n")

HasDocstring(node) ==
    /\ node.body # <<>>
    /\ node.body[1].kind = "Expr"
    /\ node.body[1].value.kind = "Constant"
    /\ node.body[1].value.str

\* ast.get_docstring(node, clean=False) or placeholder
DocstringUncleaned(node, placeholder) ==
    IF HasDocstring(node) /\ node.body[1].value.value # <<>>
    THEN node.body[1].value.value
    ELSE <<placeholder>>

\* ast.get_docstring(node) or placeholder
DocstringOr(node, placeholder) ==
    IF HasDocstring(node) /\ cleandoc(node.body[1].value.value) # <<>>
    THEN cleandoc(node.body[1].value.value)
    ELSE <<placeholder>>

(***************************************************************************)
(* CodeDocGenerator.                                                       *)
(***************************************************************************)
\* "  " * level
indent(level) == [i \in 1..level |-> "  "]

Line(path, text) == [src |-> path, text |-> text]

Names(ns) == Join([i \in 1..Len(ns) |-> <<ns[i]>>], ", ")

TitleText == <<"# Code Analysis and Auto Documentation\n">>

\* [arg.arg for arg in node.args.args]
ArgNames(node) == [i \in 1..Len(node.args.args) |-> node.args.args[i].arg]

\* the positions in IterFields(node) of the entries of the named fields
KidsIn(node, fields) ==
    LET all == IterFields(node) IN
    SelectSeq([i \in 1..Len(all) |-> i], LAMBDA i : all[i].field \in fields)

\* generic_visit: every child
GenericKids(node) == [i \in 1..Len(IterFields(node)) |-> i]

\* visit_body_elements(node.body)
BodyKids(node) == KidsIn(node, {"body"})

Handled == {"Module", "Import", "ImportFrom", "ClassDef", "FunctionDef",
            "Assign", "For", "Call", "Return"}

Top == stack[Len(stack)]
Visiting(kind) ==
    /\ pc = "visit"
    /\ stack # <<>>
    /\ Top.at = "enter"
    /\ Top.node.kind = kind

\* the handler goes on to visit the children kids
Descend(kids) == stack' = [stack EXCEPT ![Len(stack)].at = "kids",
                                         ![Len(stack)].kids = kids]
\* the handler returns
Leave == stack' = SubSeq(stack, 1, Len(stack) - 1)

Untouched == UNCHANGED <<file, disk, has_unparse, pc, source_code, tree, exc, result>>

\* the title only ahead of a body that has statements
visit_Module_unless_empty ==
    /\ Visiting("Module")
    /\ docs' = IF Top.node.body = <<>> THEN docs
               ELSE Append(docs, Line(Top.path, TitleText))
    /\ Descend(GenericKids(Top.node))
    /\ UNCHANGED indent_level
    /\ Untouched

visit_Module ==
    /\ Visiting("Module")
    /\ docs' = Append(docs, Line(Top.path, TitleText))
    /\ Descend(GenericKids(Top.node))
    /\ UNCHANGED indent_level
    /\ Untouched

visit_Import ==
    /\ Visiting("Import")
    /\ docs' = Append(docs, Line(Top.path,
                  <<"- Import: '">> \o Names(Top.node.names) \o <<"'">>))
    /\ Leave
    /\ UNCHANGED indent_level
    /\ Untouched

visit_ImportFrom ==
    /\ Visiting("ImportFrom")
    /\ LET module == IF Top.node.module = <<>> THEN "" ELSE Top.node.module[1] IN
       docs' = Append(docs, Line(Top.path,
                  <<"- From '", module, "' import '">> \o Names(Top.node.names)
                  \o <<"'">>))
    /\ Leave
    /\ UNCHANGED indent_level
    /\ Untouched

visit_ClassDef ==
    /\ Visiting("ClassDef")
    /\ LET prefix == indent(indent_level)
           docstring == DocstringOr(Top.node, "No class docstring found.")
       IN  docs' = docs
              \o <<Line(Top.path, prefix \o <<"## Class: '", Top.node.name, "' (Line ",
                                               ToString(Top.node.lineno), ")">>),
                   Line(Top.path, prefix \o <<"- Docstring: ">> \o docstring)>>
    /\ indent_level' = indent_level + 1
    /\ Descend(BodyKids(Top.node))
    /\ Untouched

visit_FunctionDef ==
    /\ Visiting("FunctionDef")
    /\ LET prefix == indent(indent_level)
           args == ArgNames(Top.node)
           docstring == DocstringOr(Top.node, "No function docstring found.")
       IN  docs' = docs
              \o <<Line(Top.path, prefix \o <<"### Function: '", Top.node.name,
                                               "' (Line ", ToString(Top.node.lineno), ")">>),
                   Line(Top.path, prefix \o <<"- Arguments: ">>
                                  \o (IF args # <<>> THEN Names(args) ELSE <<"None">>)),
                   Line(Top.path, prefix \o <<"- Docstring: ">> \o docstring)>>
    /\ indent_level' = indent_level + 1
    /\ Descend(BodyKids(Top.node))
    /\ Untouched

visit_Assign ==
    /\ Visiting("Assign")
    /\ LET prefix == indent(indent_level)
           targets == Join([i \in 1..Len(Top.node.targets) |->
                               Render(Top.node.targets[i])], ", ")
           value == Render(Top.node.value)
       IN  docs' = Append(docs, Line(Top.path,
                      prefix \o <<"- Assignment: '">> \o targets \o <<" = ">>
                      \o value \o <<"'">>))
    /\ Leave
    /\ UNCHANGED indent_level
    /\ Untouched

visit_For ==
    /\ Visiting("For")
    /\ LET prefix == indent(indent_level)
           target == Render(Top.node.target)
           iter_ == Render(Top.node.iter)
       IN  docs' = Append(docs, Line(Top.path,
                      prefix \o <<"- For loop: 'for ">> \o target \o <<" in ">>
                      \o iter_ \o <<"'">>))
    /\ indent_level' = indent_level + 1
    /\ Descend(BodyKids(Top.node))
    /\ Untouched

visit_Call ==
    /\ Visiting("Call")
    /\ LET prefix == indent(indent_level)
           func == Top.node.func
           func_name == IF func.kind = "Attribute"
                        THEN Render(func.value) \o <<".", func.attr>>
                        ELSE IF func.kind = "Name" THEN <<func.id>>
                        ELSE <<"">>
       IN  docs' = Append(docs, Line(Top.path,
                      prefix \o <<"- Function call: '">> \o func_name \o <<"'">>))
    /\ Descend(GenericKids(Top.node))
    /\ UNCHANGED indent_level
    /\ Untouched

visit_Return ==
    /\ Visiting("Return")
    /\ LET prefix == indent(indent_level)
           value == IF Top.node.value # <<>> /\ has_unparse
                    THEN Unparse(Top.node.value[1]) ELSE <<"?">>
       IN  docs' = Append(docs, Line(Top.path,
                      prefix \o <<"- Return statement: '">> \o value \o <<"'">>))
    /\ Leave
    /\ UNCHANGED indent_level
    /\ Untouched

\* NodeVisitor.visit on a node without a handler
generic_visit ==
    /\ pc = "visit"
    /\ stack # <<>>
    /\ Top.at = "enter"
    /\ Top.node.kind \notin Handled
    /\ Descend(GenericKids(Top.node))
    /\ UNCHANGED <<docs, indent_level>>
    /\ Untouched

\* self.visit(child), for the next child of the loop the top frame is in.
\* The new frame notes indent_level at the call in `entry`, for the properties.
visit_child ==
    /\ pc = "visit"
    /\ stack # <<>>
    /\ Top.at = "kids"
    /\ Top.next <= Len(Top.kids)
    /\ LET k == Top.kids[Top.next] IN
       stack' = Append([stack EXCEPT ![Len(stack)].next = @ + 1],
                       [node |-> IterFields(Top.node)[k].node,
                        path |-> Append(Top.path, k),
                        at |-> "enter", kids |-> <<>>, next |-> 1,
                        entry |-> indent_level])
    /\ UNCHANGED <<docs, indent_level>>
    /\ Untouched

\* the loop over the children is over
AtEnd ==
    /\ pc = "visit"
    /\ stack # <<>>
    /\ Top.at = "kids"
    /\ Top.next > Len(Top.kids)

\* visit_For returns without indent_level -= 1
leave_body_For_keeps_level ==
    /\ AtEnd
    /\ Top.node.kind \in {"ClassDef", "FunctionDef", "For"}
    /\ indent_level' = IF Top.node.kind = "For" THEN indent_level ELSE indent_level - 1
    /\ Leave
    /\ UNCHANGED docs
    /\ Untouched

\* visit_ClassDef, visit_FunctionDef, visit_For: indent_level -= 1, return
leave_body ==
    /\ AtEnd
    /\ Top.node.kind \in {"ClassDef", "FunctionDef", "For"}
    /\ indent_level' = indent_level - 1
    /\ Leave
    /\ UNCHANGED docs
    /\ Untouched

\* generic_visit (also under visit_Module and visit_Call) returns
return_visit ==
    /\ AtEnd
    /\ Top.node.kind \notin {"ClassDef", "FunctionDef", "For"}
    /\ Leave
    /\ UNCHANGED <<docs, indent_level>>
    /\ Untouched

(***************************************************************************)
(* The programs the visitor is run on.                                     *)
(***************************************************************************)
NoArgs == arguments(<<>>, <<>>, <<>>, <<>>, <<>>, <<>>, <<>>)

\* f(), f(g()), f(g(), h()), o.m(g()), f()(g())
CallExprs ==
    {Call(Name("f"), <<>>),
     Call(Name("f"), <<Call(Name("g"), <<>>)>>),
     Call(Name("f"), <<Call(Name("g"), <<>>), Call(Name("h"), <<>>)>>),
     Call(Attribute(Name("o"), "m"), <<Call(Name("g"), <<>>)>>),
     Call(Call(Name("f"), <<>>), <<Call(Name("g"), <<>>)>>)}

\* statements without a body
Leaves ==
    {Import(<<"os">>), Import(<<"os", "sys">>),
     ImportFrom(<<>>, <<"x">>), ImportFrom(<<"m">>, <<"x", "y">>),
     Assign(<<Name("x")>>, Num(1)),
     Assign(<<Name("a"), Name("b")>>, Call(Name("f"), <<Call(Name("g"), <<>>)>>)),
     Return(<<>>),
     Return(<<BinOp(Name("a"), Name("b"))>>),
     Return(<<Call(Name("f"), <<Call(Name("g"), <<>>)>>)>>),
     Pass}
    \cup {Expr(c) : c \in CallExprs}

\* for i in f(g()), while c, if c
LoopIter == Call(Name("f"), <<Call(Name("g"), <<>>)>>)

RECURSIVE StmtsAt(_, _)
\* the statements that start on line `line` with at most `nest` compound
\* statements around an inner statement
StmtsAt(line, nest) ==
    Leaves \cup
    (IF nest = 0 THEN {}
     ELSE LET inner == StmtsAt(line + 1, nest - 1)
              after == StmtsAt(line + 3, nest - 1)
          IN  {ClassDef("C", line, <<s>>, <<>>) : s \in inner}
              \cup {FunctionDef("f", line, NoArgs, <<s>>, <<>>) : s \in inner}
              \cup {AsyncFunctionDef("af", line, NoArgs, <<s>>, <<>>) : s \in inner}
              \cup {For(Name("i"), LoopIter, <<s>>, <<>>) : s \in inner}
              \cup {For(Name("i"), LoopIter, <<Pass>>, <<s>>) : s \in after}
              \cup {AsyncFor(Name("i"), Name("xs"), <<s>>, <<>>) : s \in inner}
              \cup {While(Name("c"), <<s>>, <<>>) : s \in inner}
              \cup {If(Name("c"), <<s>>, <<>>) : s \in inner})

DocChars == {"d", " ", "\n"}
DocStrings == SeqsUpTo(DocChars, MaxDocLen)

Opt(x) == {<<>>, <<x>>}

\* the parameter lists: (p, /, a, b, *v, k, **kw) with any part left out
ArgLists ==
    {arguments(po, ar, va, ko, [i \in 1..Len(ko) |-> Num(0)], kw, <<>>) :
        po \in Opt(arg("p")), ar \in {<<>>, <<arg("a")>>, <<arg("a"), arg("b")>>},
        va \in Opt(arg("v")), ko \in Opt(arg("k")), kw \in Opt(arg("kw"))}

\* class and function definitions on line `line`, varying in their first
\* body statement, their parameters, their decorators and their defaults
DefsAt(line) ==
    {ClassDef("C", line, <<Expr(Str(d)), Pass>>, <<>>) : d \in DocStrings}
    \cup {FunctionDef("f", line, NoArgs, <<Expr(Str(d))>>, <<>>) : d \in DocStrings}
    \cup {FunctionDef("f", line, a, <<Pass>>, <<>>) : a \in ArgLists}
    \cup {ClassDef("C", line + 1, <<Pass>>, <<Call(Name("deco"), <<>>)>>),
          ClassDef("C", line, <<Expr(Num(1)), Expr(Str(<<"d">>))>>, <<>>),
          ClassDef("C", line, <<Expr(Name("d"))>>, <<>>),
          FunctionDef("f", line + 1, NoArgs, <<Pass>>, <<Call(Name("deco"), <<>>)>>),
          FunctionDef("f", line,
                      arguments(<<>>, <<arg("a")>>, <<>>, <<>>, <<>>, <<>>,
                                <<Call(Name("g"), <<>>)>>),
                      <<Return(<<Name("a")>>)>>, <<>>),
          AsyncFunctionDef("af", line,
                      arguments(<<>>, <<arg("a")>>, <<>>, <<>>, <<>>, <<>>,
                                <<Call(Name("g"), <<>>)>>),
                      <<Expr(Str(<<"d">>)), Assign(<<Name("x")>>, Num(1))>>,
                      <<Call(Name("deco"), <<>>)>>)}

Trees ==
    {Module(<<>>)}
    \cup {Module(<<s>>) : s \in StmtsAt(1, MaxNest)}
    \cup {Module(<<s, t>>) : s \in StmtsAt(1, 1),
                             t \in {Assign(<<Name("x")>>, Num(1)),
                                    Expr(Call(Name("f"), <<>>))}}
    \cup {Module(<<d>>) : d \in DefsAt(1)}
    \cup {Module(<<ClassDef("K", 1, <<d>>, <<>>)>>) : d \in DefsAt(2)}
    \cup {Module(<<While(Name("c"), <<d>>, <<>>)>>) : d \in DefsAt(2)}

(***************************************************************************)
(* analyze_code's inputs: bytes, UTF-8 decoding, text-mode reading and     *)
(* ast.parse on the code points LF, CR, "(", ")", "a" and U+00E9.          *)
(***************************************************************************)
\* LF, CR, "(", ")", "a", and the two bytes of U+00E9 in UTF-8
ByteValues == {10, 13, 40, 41, 97, 195, 169}
ByteStrings == SeqsUpTo(ByteValues, MaxBytes)

None == [kind |-> "None"]
\* an uploaded binary stream, a text stream, a path
Inputs ==
    {None}
    \cup [kind : {"BytesIO"}, data : ByteStrings]
    \cup [kind : {"StringIO"}, data : {<<>>, <<97>>}]
    \cup [kind : {"path"}, name : {"", "a.py", "gone.py"}]

RECURSIVE Utf8Decode(_)
\* bytes.decode("utf-8") on bytes below 224: [ok, text]
Utf8Decode(bytes) ==
    IF bytes = <<>> THEN [ok |-> TRUE, text |-> <<>>]
    ELSE LET b == Head(bytes) IN
         IF b < 128
         THEN LET r == Utf8Decode(Tail(bytes)) IN
              [ok |-> r.ok, text |-> IF r.ok THEN <<b>> \o r.text ELSE <<>>]
         ELSE IF /\ b >= 194 /\ b < 224 /\ Len(bytes) >= 2
                 /\ bytes[2] >= 128 /\ bytes[2] < 192
         THEN LET r == Utf8Decode(Drop(bytes, 2)) IN
              [ok |-> r.ok,
               text |-> IF r.ok THEN <<(b - 192) * 64 + (bytes[2] - 128)>> \o r.text
                        ELSE <<>>]
         ELSE [ok |-> FALSE, text |-> <<>>]

RECURSIVE UniversalNewlines(_)
\* what a text-mode file (newline=None) makes of the decoded text
UniversalNewlines(text) ==
    IF text = <<>> THEN <<>>
    ELSE IF Head(text) = 13
         THEN <<10>> \o UniversalNewlines(
                  IF Len(text) >= 2 /\ text[2] = 10 THEN Drop(text, 2) ELSE Tail(text))
         ELSE <<Head(text)>> \o UniversalNewlines(Tail(text))

CharName(c) == IF c = 97 THEN "a" ELSE "U+00E9"

RECURSIVE Tokens(_, _, _)
\* the tokenizer: NAME, "(", ")" and, outside parentheses, NEWLINE
Tokens(text, depth, name) ==
    LET flush == IF name = "" THEN <<>> ELSE <<[t |-> "NAME", id |-> name]>> IN
    IF text = <<>> THEN flush
    ELSE LET c == Head(text) IN
         IF c \in {97, 233} THEN Tokens(Tail(text), depth, name \o CharName(c))
         ELSE IF c = 40
         THEN flush \o <<[t |-> "("]>> \o Tokens(Tail(text), depth + 1, "")
         ELSE IF c = 41
         THEN flush \o <<[t |-> ")"]>>
              \o Tokens(Tail(text), IF depth > 0 THEN depth - 1 ELSE 0, "")
         ELSE flush \o (IF depth = 0 THEN <<[t |-> "NEWLINE"]>> ELSE <<>>)
              \o Tokens(Tail(text), depth, "")

Failed == [ok |-> FALSE, node |-> None, rest |-> <<>>]
Parsed(node, rest) == [ok |-> TRUE, node |-> node, rest |-> rest]
Is(toks, t) == toks # <<>> /\ Head(toks).t = t

RECURSIVE ParseExpr(_)
RECURSIVE ParseTrailers(_, _)
\* atom: NAME | "(" ")" | "(" expression ")"
ParseAtom(toks) ==
    IF Is(toks, "NAME") THEN Parsed(Name(Head(toks).id), Tail(toks))
    ELSE IF Is(toks, "(")
    THEN IF Is(Tail(toks), ")") THEN Parsed(Tuple(<<>>), Drop(toks, 2))
         ELSE LET r == ParseExpr(Tail(toks)) IN
              IF r.ok /\ Is(r.rest, ")") THEN Parsed(r.node, Tail(r.rest)) ELSE Failed
    ELSE Failed

\* primary: primary "(" [expression] ")"
ParseTrailers(func, toks) ==
    IF Is(toks, "(")
    THEN IF Is(Tail(toks), ")") THEN ParseTrailers(Call(func, <<>>), Drop(toks, 2))
         ELSE LET r == ParseExpr(Tail(toks)) IN
              IF r.ok /\ Is(r.rest, ")")
              THEN ParseTrailers(Call(func, <<r.node>>), Tail(r.rest))
              ELSE Failed
    ELSE Parsed(func, toks)

ParseExpr(toks) ==
    LET a == ParseAtom(toks) IN
    IF a.ok THEN ParseTrailers(a.node, a.rest) ELSE Failed

RECURSIVE ParseStatements(_)
\* statements: (NEWLINE | expression (NEWLINE | end))*
ParseStatements(toks) ==
    IF toks = <<>> THEN Parsed(<<>>, <<>>)
    ELSE IF Is(toks, "NEWLINE") THEN ParseStatements(Tail(toks))
    ELSE LET e == ParseExpr(toks) IN
         IF e.ok /\ (e.rest = <<>> \/ Is(e.rest, "NEWLINE"))
         THEN LET r == ParseStatements(e.rest) IN
              IF r.ok THEN Parsed(<<Expr(e.node)>> \o r.node, <<>>) ELSE Failed
         ELSE Failed

\* ast.parse(source_code): [ok, node]
Parse(text) ==
    LET r == ParseStatements(Tokens(text, 0, "")) IN
    [ok |-> r.ok, node |-> IF r.ok THEN Module(r.node) ELSE None]

(***************************************************************************)
(* analyze_code.                                                           *)
(***************************************************************************)
Warning ==
    <<"### No file uploaded! **Please upload a '.py' file to generate documentation.**">>

Exception(type, msg) == <<[type |-> type, msg |-> msg]>>

\* except SyntaxError
CaughtSyntaxError(e) == e.type = "SyntaxError"

\* the classes `except Exception` catches
ExceptionClasses == {"OSError", "FileNotFoundError", "UnicodeDecodeError",
                     "AttributeError", "SyntaxError", "RecursionError", "MemoryError"}
Caught(e) == e.type \in ExceptionClasses

\* not file
IsFalsy(f) == f = None \/ (f.kind = "path" /\ f.name = "")

\* file is None
IsNone(f) == f = None

\* hasattr(file, "read")
HasRead(f) == f.kind \in {"BytesIO", "StringIO"}

Frame(node) == [node |-> node, path |-> <<>>, at |-> "enter", kids |-> <<>>,
                next |-> 1, entry |-> 0]

Raise(type, msg) ==
    /\ exc' = Exception(type, msg)
    /\ pc' = "except"

Quiet == UNCHANGED <<file, disk, has_unparse, tree, stack, docs, indent_level>>

return_warning ==
    /\ pc = "start"
    /\ IsNone(file)
    /\ result' = <<Warning, <<>>>>
    /\ pc' = "done"
    /\ UNCHANGED <<source_code, exc>>
    /\ Quiet

\* file.read().decode("utf-8")
read_stream ==
    /\ pc = "start"
    /\ ~IsNone(file)
    /\ HasRead(file)
    /\ \/ /\ Raise("OSError", "[Errno 5] Input/output error")
          /\ UNCHANGED source_code
       \/ /\ file.kind = "StringIO"
          /\ Raise("AttributeError", "'str' object has no attribute 'decode'")
          /\ UNCHANGED source_code
       \/ /\ file.kind = "BytesIO"
          /\ ~Utf8Decode(file.data).ok
          /\ Raise("UnicodeDecodeError", "'utf-8' codec can't decode")
          /\ UNCHANGED source_code
       \/ /\ file.kind = "BytesIO"
          /\ Utf8Decode(file.data).ok
          /\ source_code' = Utf8Decode(file.data).text
          /\ pc' = "parse"
          /\ UNCHANGED exc
    /\ UNCHANGED result
    /\ Quiet

\* open(file, "r", encoding="utf-8").read()
read_path ==
    /\ pc = "start"
    /\ ~IsNone(file)
    /\ ~HasRead(file)
    /\ \/ /\ file.name # "a.py"
          /\ Raise("FileNotFoundError", "[Errno 2] No such file or directory")
          /\ UNCHANGED source_code
       \/ /\ file.name = "a.py"
          /\ Raise("OSError", "[Errno 5] Input/output error")
          /\ UNCHANGED source_code
       \/ /\ file.name = "a.py"
          /\ ~Utf8Decode(disk).ok
          /\ Raise("UnicodeDecodeError", "'utf-8' codec can't decode")
          /\ UNCHANGED source_code
       \/ /\ file.name = "a.py"
          /\ Utf8Decode(disk).ok
          /\ source_code' = UniversalNewlines(Utf8Decode(disk).text)
          /\ pc' = "parse"
          /\ UNCHANGED exc
    /\ UNCHANGED result
    /\ Quiet

\* tree = ast.parse(source_code); doc_gen = CodeDocGenerator(); doc_gen.visit(tree)
parse ==
    /\ pc = "parse"
    /\ LET r == Parse(source_code) IN
       IF r.ok
       THEN /\ tree' = r.node
            /\ docs' = <<>>
            /\ indent_level' = 0
            /\ stack' = <<Frame(r.node)>>
            /\ pc' = "visit"
            /\ UNCHANGED exc
       ELSE /\ Raise("SyntaxError", "invalid syntax")
            /\ UNCHANGED <<tree, docs, indent_level, stack>>
    /\ UNCHANGED <<file, disk, has_unparse, source_code, result>>

\* the interpreter runs out of stack or memory inside the visitor
visit_raises ==
    /\ pc = "visit"
    /\ stack # <<>>
    /\ \E type \in {"RecursionError", "MemoryError"} : Raise(type, "")
    /\ UNCHANGED <<source_code, result>>
    /\ Quiet

\* return "\n".join(doc_gen.docs), source_code
return_report ==
    /\ pc = "visit"
    /\ stack = <<>>
    /\ result' = <<Join([i \in 1..Len(docs) |-> docs[i].text], "\n"), source_code>>
    /\ pc' = "done"
    /\ UNCHANGED <<source_code, exc>>
    /\ Quiet

\* except Exception as e: return f"Error: {str(e)}", ""
except_Exception ==
    /\ pc = "except"
    /\ IF Caught(exc[1])
       THEN /\ result' = <<<<"Error: ", exc[1].msg>>, <<>>>>
            /\ pc' = "done"
       ELSE /\ pc' = "propagated"
            /\ UNCHANGED result
    /\ UNCHANGED <<source_code, exc>>
    /\ Quiet

\* the visitor on its own: doc_gen = CodeDocGenerator(); doc_gen.visit(tree)
Init ==
    /\ file = <<>>
    /\ disk = <<>>
    /\ has_unparse \in BOOLEAN
    /\ pc = "visit"
    /\ source_code = <<>>
    /\ tree \in Trees
    /\ stack = <<Frame(tree)>>
    /\ docs = <<>>
    /\ indent_level = 0
    /\ exc = <<>>
    /\ result = <<>>

\* analyze_code(file) is called
InitAnalyze ==
    /\ file \in Inputs
    /\ disk \in (IF file.kind = "path" /\ file.name = "a.py" THEN ByteStrings ELSE {<<>>})
    /\ has_unparse \in BOOLEAN
    /\ pc = "start"
    /\ source_code = <<>>
    /\ tree = None
    /\ stack = <<>>
    /\ docs = <<>>
    /\ indent_level = 0
    /\ exc = <<>>
    /\ result = <<>>

Next ==
    \/ visit_Module
    \/ visit_Import
    \/ visit_ImportFrom
    \/ visit_ClassDef
    \/ visit_FunctionDef
    \/ visit_Assign
    \/ visit_For
    \/ visit_Call
    \/ visit_Return
    \/ generic_visit
    \/ visit_child
    \/ leave_body
    \/ return_visit

Spec == Init /\ [][Next]_vars

NextAnalyze ==
    \/ return_warning
    \/ read_stream
    \/ read_path
    \/ parse
    \/ visit_Module
    \/ visit_Call
    \/ generic_visit
    \/ visit_child
    \/ return_visit
    \/ visit_raises
    \/ return_report
    \/ except_Exception

SpecAnalyze == InitAnalyze /\ [][NextAnalyze]_vars

(***************************************************************************)
(* Vocabulary of the properties.                                           *)
(***************************************************************************)
\* the visitor has returned from visit(tree)
Visited == pc = "visit" /\ stack = <<>>

\* analyze_code has returned
Returned == pc = "done"

RECURSIVE NodeAt(_, _)
\* the node at a position
NodeAt(node, path) ==
    IF path = <<>> THEN node
    ELSE NodeAt(IterFields(node)[Head(path)].node, Tail(path))

RECURSIVE PathsOf(_)
\* the positions of a tree's nodes
PathsOf(node) ==
    {<<>>} \cup UNION {{<<k>> \o p : p \in PathsOf(IterFields(node)[k].node)} :
                          k \in 1..Len(IterFields(node))}

IsPrefix(p, q) == Len(p) <= Len(q) /\ SubSeq(q, 1, Len(p)) = p

\* p comes before q in depth-first pre-order
Before(p, q) ==
    \/ p # q /\ IsPrefix(p, q)
    \/ \E k \in 1..Len(p) :
          /\ k <= Len(q)
          /\ SubSeq(p, 1, k - 1) = SubSeq(q, 1, k - 1)
          /\ p[k] < q[k]

\* the field of its parent that the node at a non-root position sits in
FieldOf(path) ==
    IterFields(NodeAt(tree, SubSeq(path, 1, Len(path) - 1)))[path[Len(path)]].field

\* the class, function and loop bodies around a position
EnclosingBodies(path) ==
    Cardinality({k \in 1..Len(path) :
        /\ NodeAt(tree, SubSeq(path, 1, k - 1)).kind \in
              {"ClassDef", "FunctionDef", "AsyncFunctionDef", "For", "AsyncFor", "While"}
        /\ FieldOf(SubSeq(path, 1, k)) = "body"})

RECURSIVE IndentUnits(_)
\* the two-space units a line starts with
IndentUnits(text) ==
    IF text # <<>> /\ Head(text) = "  " THEN 1 + IndentUnits(Tail(text)) ELSE 0

Unindented(text) == Drop(text, IndentUnits(text))

LinesOf(path) == {i \in 1..Len(docs) : docs[i].src = path}

\* the lines that report the field named by `label` for a node of kind `kind`
FieldLines(kind, label) ==
    {i \in 1..Len(docs) : /\ NodeAt(tree, docs[i].src).kind = kind
                          /\ Head(Unindented(docs[i].text)) = label}

FieldValue(i) == Tail(Unindented(docs[i].text))

\* the bare string literal that opens a body, <<>> when there is none
LeadingLiteral(node) ==
    IF /\ node.body # <<>>
       /\ node.body[1].kind = "Expr"
       /\ node.body[1].value.kind = "Constant"
       /\ node.body[1].value.str
    THEN <<node.body[1].value.value>> ELSE <<>>

DocPlaceholder(kind) ==
    IF kind = "ClassDef" THEN <<"No class docstring found.">>
    ELSE <<"No function docstring found.">>

\* the names of all the parameters of a function, in source order
AllParameters(node) ==
    LET a == node.args
        all == a.posonlyargs \o a.args \o a.vararg \o a.kwonlyargs \o a.kwarg
    IN  [i \in 1..Len(all) |-> all[i].arg]

\* the bytes of the input file
InputBytes == IF file.kind = "path" THEN disk ELSE file.data

ErrorPair == <<<<"Error: ", exc[1].msg>>, <<>>>>
ReportPair == <<Join([i \in 1..Len(docs) |-> docs[i].text], "\n"), source_code>>

\* the text analyze_code reads from the input, when it decodes
InputText ==
    IF file.kind = "path" THEN UniversalNewlines(Utf8Decode(disk).text)
    ELSE Utf8Decode(file.data).text

\* reading, decoding or parsing the input cannot succeed
BadInput ==
    \/ file.kind = "StringIO"
    \/ file.kind = "path" /\ file.name # "a.py"
    \/ /\ file.kind = "BytesIO" \/ (file.kind = "path" /\ file.name = "a.py")
       /\ ~Utf8Decode(InputBytes).ok \/ ~Parse(InputText).ok

(***************************************************************************)
(* C1: for every input other than None no exception leaves analyze_code:   *)
(* a failure while reading, decoding, parsing or visiting makes it return  *)
(* ("Error: " + the failure's description, ""), and it returns the pair    *)
(* (report, source) otherwise.                                             *)
(***************************************************************************)
C1_NoExceptionEscapes ==
    /\ pc # "propagated"
    /\ (Returned /\ file # None) =>
          /\ exc # <<>> => result = ErrorPair
          /\ exc = <<>> => result = ReportPair
          /\ BadInput => exc # <<>> /\ result[1][1] = "Error: "

C1_Witness ==
    /\ Returned
    /\ exc # <<>>
    /\ exc[1].type = "SyntaxError"
    /\ result = <<<<"Error: ", "invalid syntax">>, <<>>>>

(***************************************************************************)
(* C2: the second element analyze_code returns is the UTF-8 decoding of    *)
(* the input file's bytes when the analysis succeeds, and the empty string *)
(* when it fails or there is no input.                                     *)
(***************************************************************************)
C2_SourceIsDecodedInput ==
    Returned =>
        IF file # None /\ exc = <<>>
        THEN result[2] = Utf8Decode(InputBytes).text
        ELSE result[2] = <<>>

(***************************************************************************)
(* C3 as stated: for an absent or empty input (None, an empty path string, *)
(* an empty file) analyze_code returns the warning with an empty source    *)
(* and neither reads nor parses.                                           *)
(***************************************************************************)
EmptyInput ==
    \/ file = None
    \/ file.kind = "path" /\ file.name = ""
    \/ file.kind = "path" /\ file.name = "a.py" /\ disk = <<>>
    \/ file.kind = "BytesIO" /\ file.data = <<>>

C3_WarningForAbsentOrEmpty ==
    (Returned /\ EmptyInput) =>
        /\ result = <<Warning, <<>>>>
        /\ tree = None

(***************************************************************************)
(* C3 as amended: analyze_code returns the warning with an empty source,   *)
(* without reading or parsing, exactly when its input is None; an empty    *)
(* path string is opened and gives the error pair, and an empty file that  *)
(* is read is parsed and gives the report of the title line alone.         *)
(***************************************************************************)
C3_WarningOnlyForNone ==
    /\ (Returned /\ file = None) =>
          /\ result = <<Warning, <<>>>>
          /\ source_code = <<>> /\ tree = None /\ docs = <<>> /\ exc = <<>>
    /\ (Returned /\ file # None) => result[1] # Warning
    /\ (Returned /\ file # None /\ file.kind = "path" /\ file.name = "") =>
          /\ exc # <<>> /\ exc[1].type = "FileNotFoundError"
          /\ result = <<<<"Error: ", "[Errno 2] No such file or directory">>, <<>>>>
    /\ (Returned /\ file # None /\ file.kind \in {"BytesIO", "path"}
                 /\ InputBytes = <<>> /\ exc = <<>>) =>
          /\ tree = Module(<<>>)
          /\ result = <<<<"# Code Analysis and Auto Documentation\n">>, <<>>>>

C3_Witness ==
    /\ Returned
    /\ file = None
    /\ result = <<Warning, <<>>>>

(***************************************************************************)
(* C4: for every syntactically valid input the first line of the list is   *)
(* the title line, and the title line is in the list exactly once, the     *)
(* empty module included.                                                  *)
(***************************************************************************)
C4_TitleFirstAndOnce ==
    /\ Visited => docs # <<>>
    /\ docs # <<>> =>
          /\ docs[1].text = <<"# Code Analysis and Auto Documentation\n">>
          /\ Cardinality({i \in 1..Len(docs) :
                docs[i].text = <<"# Code Analysis and Auto Documentation\n">>}) = 1

C4_Witness ==
    /\ Visited
    /\ tree = Module(<<>>)
    /\ Len(docs) = 1

(***************************************************************************)
(* C5: every line other than the title and the import lines starts with as *)
(* many two-space units as there are class, function and loop bodies       *)
(* (async functions, while and async for loops included) around the node   *)
(* that produced it.                                                       *)
(***************************************************************************)
C5_IndentEqualsNesting ==
    \A i \in 1..Len(docs) :
        NodeAt(tree, docs[i].src).kind \notin {"Module", "Import", "ImportFrom"} =>
            IndentUnits(docs[i].text) = EnclosingBodies(docs[i].src)

(***************************************************************************)
(* C6: every call that is an argument of another call has its own          *)
(* "Function call" line, placed right after the line of the enclosing      *)
(* call, wherever the enclosing call stands.                               *)
(***************************************************************************)
C6_NestedCallLineFollowsParent ==
    Visited =>
        \A q \in PathsOf(tree) :
            LET p == SubSeq(q, 1, Len(q) - 1) IN
            (/\ q # <<>>
             /\ NodeAt(tree, q).kind = "Call"
             /\ NodeAt(tree, p).kind = "Call"
             /\ FieldOf(q) = "args") =>
                \E i \in 1..(Len(docs) - 1) :
                    /\ docs[i].src = p
                    /\ docs[i + 1].src = q
                    /\ Head(Unindented(docs[i + 1].text)) = "- Function call: '"

(***************************************************************************)
(* C7 as stated: the Docstring field of a class or function is the         *)
(* placeholder exactly when the first body statement is not a bare string  *)
(* literal, and is the literal's text otherwise.                           *)
(***************************************************************************)
C7_DocstringIsLiteralText ==
    \A kind \in {"ClassDef", "FunctionDef"} :
        \A i \in FieldLines(kind, "- Docstring: ") :
            LET lit == LeadingLiteral(NodeAt(tree, docs[i].src)) IN
            IF lit = <<>> THEN FieldValue(i) = DocPlaceholder(kind)
            ELSE FieldValue(i) = lit[1]

(***************************************************************************)
(* C7 as amended: for every class or function definition whose lines the   *)
(* visitor emits, the Docstring field is the text of the bare string       *)
(* literal that opens the body, cleaned as inspect.cleandoc cleans it,     *)
(* when there is such a literal and its cleaned text is not empty, and is  *)
(* the placeholder in every other case.                                    *)
(***************************************************************************)
C7_DocstringIsCleanedText ==
    \A kind \in {"ClassDef", "FunctionDef"} :
        /\ \A i \in FieldLines(kind, "- Docstring: ") :
              LET lit == LeadingLiteral(NodeAt(tree, docs[i].src)) IN
              IF lit # <<>> /\ cleandoc(lit[1]) # <<>>
              THEN FieldValue(i) = cleandoc(lit[1])
              ELSE FieldValue(i) = DocPlaceholder(kind)
        /\ \A i \in 1..Len(docs) :
              (/\ NodeAt(tree, docs[i].src).kind = kind
               /\ Head(Unindented(docs[i].text)) \in {"## Class: '", "### Function: '"}) =>
                    \E j \in FieldLines(kind, "- Docstring: ") :
                        j > i /\ docs[j].src = docs[i].src

C7_Witness ==
    /\ Visited
    /\ \E i \in FieldLines("FunctionDef", "- Docstring: ") :
          /\ LeadingLiteral(NodeAt(tree, docs[i].src)) = <<<<"d", "\n", " ", "d">>>>
          /\ FieldValue(i) = <<"d", "\n", "d">>

(***************************************************************************)
(* C8: the Arguments line of a function lists the names of all its         *)
(* parameters, positional-only, keyword-only, *args and **kwargs included, *)
(* and shows "None" only for a function without parameters.                *)
(***************************************************************************)
C8_ArgumentsListAllParameters ==
    \A i \in FieldLines("FunctionDef", "- Arguments: ") :
        LET all == AllParameters(NodeAt(tree, docs[i].src)) IN
        FieldValue(i) = IF all = <<>> THEN <<"None">> ELSE Names(all)

(***************************************************************************)
(* C9: indent_level is never negative, every visit that returns leaves it  *)
(* at the value it had when the visit began, and it is 0 when the          *)
(* traversal of the module is over.                                        *)
(***************************************************************************)
C9_IndentDiscipline ==
    /\ [](indent_level >= 0 /\ (Visited => indent_level = 0))
    /\ [][Len(stack') < Len(stack) => indent_level' = stack[Len(stack)].entry]_vars

C9_Witness ==
    /\ Visited
    /\ indent_level = 0
    /\ \E i \in 1..Len(docs) : IndentUnits(docs[i].text) >= 2

(***************************************************************************)
(* C10: every import, class, function, assignment, for-loop, call and      *)
(* return anywhere in the tree contributes a line, and the lines are in    *)
(* depth-first pre-order.                                                  *)
(***************************************************************************)
C10_EveryRecognizedNodeEmits ==
    /\ \A i, j \in 1..Len(docs) :
          i < j => docs[i].src = docs[j].src \/ Before(docs[i].src, docs[j].src)
    /\ Visited =>
          \A p \in PathsOf(tree) : NodeAt(tree, p).kind \in Handled => LinesOf(p) # {}
====
